---------------------------- MODULE Spec2Model ----------------------------
(***************************************************************************)
(* A model of the hybrid retrieval pipeline of the procurement assistant:  *)
(* services/retrieval_service.py, services/openai_service.py and config.py *)
(*                                                                         *)
(* Text is modelled as TLA+ strings, character by character, so that the   *)
(* lower-casing, substring tests and regular expressions of the code are   *)
(* computed the way Python computes them.                                  *)
(***************************************************************************)
EXTENDS Integers, Sequences, FiniteSets, TLC

VARIABLES
    (* RetrievalService.process_query, one run *)
    pc,               \* where the run stands
    query,            \* the raw argument
    awaited,          \* the value of the call expression an await is applied to
    translated_query, \* the local translated_query ("" while unassigned)
    doc_type,         \* the routed category ("" while unassigned)
    calls,            \* the provider calls the run has made, in order
    outcome,          \* how the run ended: a returned context or a raised exception
    (* the "PR" worksheet and one call of _find_relevant_pr_rows *)
    sheet_data,       \* the worksheet's records, oldest first
    pr_query,         \* the query of the matcher call
    relevant_rows,    \* what the matcher call returned
    pr_called,        \* whether the matcher has been called
    (* one call of RetrievalService.retrieve_similar_chunks *)
    rs_pc,            \* where the call stands
    rs_args,          \* its arguments: query, doc_type, top_k
    rs_awaited,       \* the value of the call expression its await is applied to
    rs_outcome,       \* how it ended: the retrieved chunks or a raised exception
    (* one call of OpenAIService.classify_document_type *)
    cl_prompt,        \* its argument
    cl_result,        \* the local result: what chat_completion returned
    cl_return,        \* what the call returned or raised
    (* one call of OpenAIService.rerank_chunks *)
    rk_pc,            \* where the call stands
    chunks,           \* the argument chunks
    top_n,            \* the argument top_n
    scored_chunks,    \* the local scored_chunks
    top_chunks,       \* the local top_chunks
    rk_return,        \* the returned text
    rk_calls,         \* the completion calls the call has made
    rk_resp,          \* what the provider answered to the last of them
    (* one call of RetrievalService._assess_policy_relevance *)
    as_pc,            \* where the call stands
    policy_chunks,    \* the argument policy_chunks
    combined_policy,  \* the local combined_policy
    as_awaited,       \* the value of the call expression its await is applied to
    as_return,        \* what the call returned
    as_calls,         \* the completion calls the call has made
    (* one call of RetrievalService._search_faq_content *)
    fq_pc,            \* where the call stands
    fq_query,         \* the argument query
    fq_i,             \* the turn of `for doc_type in [...]`, from 1
    fq_retrievals,    \* the retrieve_similar_chunks calls made: arguments and outcome
    all_faq_chunks,   \* the local all_faq_chunks
    fq_return,        \* what the call returned or raised
    (* the filter loop of _search_faq_content over one retrieved list *)
    fl_chunks,        \* the retrieved chunks the loop runs over
    fl_i,             \* the chunks the loop has looked at
    faq_chunks,       \* the local faq_chunks
    (* the RetrievalService object *)
    faiss_indexes,    \* self.faiss_indexes: the index loaded for each category
    self_chunks,      \* self.chunks: the passages loaded for each category
    (* the caller of process_query *)
    runs,             \* the process_query calls begun so far
    results,          \* the calls that have ended: query, provider answer, outcome
    (* the handle_mention tasks of the event loop *)
    co_pc,            \* where each task stands
    running,          \* the task that holds the event loop's thread, 0 for none
    in_flight,        \* the provider calls begun and not yet returned
    contextual_query, \* the local contextual_query of each task
    (* the vote handlers of main.py *)
    thread_votes,     \* the module's dict thread_votes: thread -> user -> vote
    vt_pc,            \* where each handler invocation stands
    vt_click,         \* the button click each invocation handles
    updated_blocks,   \* the local updated_blocks of each invocation
    displayed,        \* the blocks Slack shows for each thread's answer
    vt_reply,         \* the ephemeral message each invocation has posted
    vote_calls,       \* the record_user_vote calls made for each thread and user
    (* the thread histories of main.py *)
    thread_histories, \* the module's dict thread_histories: thread -> list of turns
    th_added,         \* every entry add_to_thread_history was given, per thread
    (* a chunk file and its two readers *)
    ck_pc,            \* whether the file has been read
    ck_file,          \* the text of the chunk file
    ck_service,       \* self.chunks[doc_type] of RetrievalService
    ck_builder,       \* what load_chunks returned to the index builder
    (* one call of RetrievalService._is_pr_query *)
    gt_called,        \* whether the call was made
    gt_query,         \* the argument query
    gt_return         \* what the call returned

pqVars == <<pc, query, awaited, translated_query, doc_type, calls, outcome>>
prVars == <<sheet_data, pr_query, relevant_rows, pr_called>>
rsVars == <<rs_pc, rs_args, rs_awaited, rs_outcome>>
clVars == <<cl_prompt, cl_result, cl_return>>
rkVars == <<rk_pc, chunks, top_n, scored_chunks, top_chunks, rk_return, rk_calls, rk_resp>>
asVars == <<as_pc, policy_chunks, combined_policy, as_awaited, as_return, as_calls>>
fqVars == <<fq_pc, fq_query, fq_i, fq_retrievals, all_faq_chunks, fq_return>>
flVars == <<fl_chunks, fl_i, faq_chunks>>
stVars == <<faiss_indexes, self_chunks>>
rnVars == <<runs, results>>
coVars == <<co_pc, running, in_flight, contextual_query>>
vtVars == <<thread_votes, vt_pc, vt_click, updated_blocks, displayed, vt_reply, vote_calls>>
thVars == <<thread_histories, th_added>>
ckVars == <<ck_pc, ck_file, ck_service, ck_builder>>
gtVars == <<gt_called, gt_query, gt_return>>
extVars == <<vtVars, thVars, ckVars, gtVars>>
restVars == <<asVars, fqVars, flVars, stVars, rnVars, coVars, extVars>>
vars == <<pqVars, prVars, rsVars, clVars, rkVars, restVars>>

---------------------------------------------------------------------------
(* Python text primitives                                                  *)

UpperChars == "ABCDEFGHIJKLMNOPQRSTUVWXYZ"
LowerChars == "abcdefghijklmnopqrstuvwxyz"
DigitChars == "0123456789"

Ch(s, i) == SubSeq(s, i, i)

InChars(c, set) == \E i \in 1..Len(set) : Ch(set, i) = c

\* str.lower() on one character: the lower-case letter of each upper-case letter
LowerOf == [c \in {Ch(UpperChars, i) : i \in 1..Len(UpperChars)} |->
              Ch(LowerChars, CHOOSE i \in 1..Len(UpperChars) : Ch(UpperChars, i) = c)]
LowerCh(c) == IF c \in DOMAIN LowerOf THEN LowerOf[c] ELSE c

\* str.lower()
RECURSIVE Lower(_)
Lower(s) == IF s = "" THEN "" ELSE LowerCh(Ch(s, 1)) \o Lower(SubSeq(s, 2, Len(s)))

\* sub in s
Contains(s, sub) ==
    \E i \in 1..(Len(s) + 1 - Len(sub)) : SubSeq(s, i, i + Len(sub) - 1) = sub

\* s.startswith(prefix)
StartsWith(s, prefix) == Len(prefix) <= Len(s) /\ SubSeq(s, 1, Len(prefix)) = prefix

\* the character classes \d, \s and \w of the re module
DigitSet == {Ch(DigitChars, i) : i \in 1..Len(DigitChars)}
WordSet ==
    {Ch(LowerChars, i) : i \in 1..Len(LowerChars)} \cup DOMAIN LowerOf \cup DigitSet \cup {"_"}
IsDigit(c) == c \in DigitSet
IsSpace(c) == c \in {" ", "\t", "\n", "\r"}
IsWord(c) == c \in WordSet

\* str.strip()
RECURSIVE LStrip(_)
LStrip(s) == IF s # "" /\ IsSpace(Ch(s, 1)) THEN LStrip(SubSeq(s, 2, Len(s))) ELSE s
RECURSIVE RStrip(_)
RStrip(s) ==
    IF s # "" /\ IsSpace(Ch(s, Len(s))) THEN RStrip(SubSeq(s, 1, Len(s) - 1)) ELSE s
Strip(s) == RStrip(LStrip(s))

\* str(n) of a non-negative int
RECURSIVE IntToStr(_)
IntToStr(n) ==
    IF n < 10 THEN Ch(DigitChars, n + 1)
    ELSE IntToStr(n \div 10) \o Ch(DigitChars, (n % 10) + 1)

\* sep.join(parts)
RECURSIVE Join(_, _)
Join(sep, parts) ==
    IF parts = <<>> THEN ""
    ELSE IF Len(parts) = 1 THEN parts[1]
    ELSE parts[1] \o sep \o Join(sep, Tail(parts))

\* seq[:n] and seq[-n:] for n >= 0 (n > 0 for the second)
Take(seq, n) == SubSeq(seq, 1, IF n < Len(seq) THEN n ELSE Len(seq))
LastN(seq, n) == SubSeq(seq, IF Len(seq) > n THEN Len(seq) - n + 1 ELSE 1, Len(seq))

\* the first position >= i of s that holds no character of the class, Len(s)+1 if none
RECURSIVE SkipSpaces(_, _)
SkipSpaces(s, i) ==
    IF i <= Len(s) /\ IsSpace(Ch(s, i)) THEN SkipSpaces(s, i + 1) ELSE i
RECURSIVE SkipDigits(_, _)
SkipDigits(s, i) ==
    IF i <= Len(s) /\ IsDigit(Ch(s, i)) THEN SkipDigits(s, i + 1) ELSE i
RECURSIVE SkipWord(_, _)
SkipWord(s, i) ==
    IF i <= Len(s) /\ IsWord(Ch(s, i)) THEN SkipWord(s, i + 1) ELSE i

\* re.findall(r'\w+', s): the maximal runs of word characters, left to right
RECURSIVE FindAllWords(_, _)
FindAllWords(s, i) ==
    IF i > Len(s) THEN <<>>
    ELSE IF IsWord(Ch(s, i))
         THEN <<SubSeq(s, i, SkipWord(s, i) - 1)>> \o FindAllWords(s, SkipWord(s, i))
         ELSE FindAllWords(s, i + 1)

---------------------------------------------------------------------------
(* Python values, and OpenAIService                                        *)

\* A value of the run: a str, a numpy array, or an exception that was raised.
NoValue == [kind |-> "none", text |-> ""]
StrValue(text) == [kind |-> "str", text |-> text]
ArrayValue(text) == [kind |-> "ndarray", text |-> text]
Raised(name) == [kind |-> "exception", text |-> name]

\* What the provider answers to one request: a message content, a message whose
\* content is None, or an error.
Content(text) == [kind |-> "content", text |-> text]
NullContent == [kind |-> "null", text |-> ""]
ProviderFailure == [kind |-> "error", text |-> ""]

\* OpenAIService.chat_completion, a plain function: content.strip(), "" for a None
\* content; a provider error is logged and raised again.
ChatCompletion(resp) ==
    IF resp.kind = "error" THEN Raised("APIError")
    ELSE IF resp.kind = "null" THEN StrValue("")
    ELSE StrValue(Strip(resp.text))

\* OpenAIService.translate_to_indonesian, a plain function
TranslateToIndonesian(resp) == ChatCompletion(resp)

\* OpenAIService.get_embedding, a plain function: the vector as a numpy array; a
\* provider error is logged and raised again.
GetEmbedding(resp) ==
    IF resp.kind = "error" THEN Raised("APIError") ELSE ArrayValue(resp.text)

\* `await v`: v must be awaitable (a coroutine, a Future, an object with __await__);
\* a str or a numpy array is not, and the await expression raises TypeError.
Await(v) ==
    IF v.kind = "coroutine" THEN StrValue(v.text) ELSE Raised("TypeError")

---------------------------------------------------------------------------
(* The structured-record source: rows of the "PR" worksheet                *)

\* A cell as gspread's get_all_records yields it: an int or a string.
IntCell(n) == [kind |-> "int", n |-> n, s |-> ""]
StrCell(s) == [kind |-> "str", n |-> 0, s |-> s]

\* str(v) of a cell
CellStr(v) == IF v.kind = "int" THEN IntToStr(v.n) ELSE v.s

\* The columns of the worksheet, in order: row.values() follows it.
Columns == <<"No", "Request #", "Description">>

\* row.values(), as strings
RowValues(row) == [c \in 1..Len(Columns) |-> CellStr(row[Columns[c]])]

\* row.get("Request #", "")
RequestNo(row) == IF "Request #" \in DOMAIN row THEN row["Request #"] ELSE StrCell("")


\* One worksheet record: its running number, its request number, its description.
Row(i, kind) ==
    ("No" :> IntCell(i)) @@ ("Request #" :> kind.req) @@ ("Description" :> kind.desc)

---------------------------------------------------------------------------
(* RetrievalService._find_relevant_pr_rows                                 *)

\* The group of r"pr\s*#?\s*(\d+)" matched at position i of s, "" if it does not
\* match there (the group itself holds at least one digit).
PrNumberAt(s, i) ==
    LET j == SkipSpaces(s, i + 2)
        k == IF j <= Len(s) /\ Ch(s, j) = "#" THEN SkipSpaces(s, j + 1) ELSE j
        e == SkipDigits(s, k)
    IN  IF SubSeq(s, i, i + 1) = "pr" /\ e > k THEN SubSeq(s, k, e - 1) ELSE ""

\* re.search: the leftmost match
RECURSIVE PrNumberSearch(_, _)
PrNumberSearch(s, i) ==
    IF i + 1 > Len(s) THEN ""
    ELSE IF PrNumberAt(s, i) # "" THEN PrNumberAt(s, i)
    ELSE PrNumberSearch(s, i + 1)

\* pr_number_match.group(1), "" when re.search returns None
PrNumber(q) == PrNumberSearch(Lower(q), 1)

\* ' '.join(str(v).lower() for v in row.values())
RowText(row) == Join(" ", [c \in 1..Len(Columns) |-> Lower(RowValues(row)[c])])

\* (variant: the number looked for anywhere in the row, not in 'Request #' alone)
RowsByNumberAnyField(pr_number, rows) ==
    Take(SelectSeq(rows, LAMBDA row : Contains(RowText(row), pr_number)), 10)

\* the rows whose 'Request #', as text and stripped, is pr_number; the first 10
RowsByNumber(pr_number, rows) ==
    Take(SelectSeq(rows, LAMBDA row : Strip(CellStr(RequestNo(row))) = pr_number), 10)

\* the words of the query longer than 2 characters
Keywords(q) == SelectSeq(FindAllWords(Lower(q), 1), LAMBDA kw : Len(kw) > 2)

\* all(kw in row_text for kw in keywords), any(kw in row_text for kw in keywords)
MatchesAll(row, keywords) ==
    LET row_text == RowText(row)
    IN  \A k \in 1..Len(keywords) : Contains(row_text, keywords[k])
MatchesAny(row, keywords) ==
    LET row_text == RowText(row)
    IN  \E k \in 1..Len(keywords) : Contains(row_text, keywords[k])

\* (variant: a single pass that takes every row holding at least one keyword)
RowsByKeywordsAnyOnly(keywords, rows) ==
    SelectSeq(rows, LAMBDA row : MatchesAny(row, keywords))

\* the two passes over the sheet: every keyword first, any keyword if none had all
RowsByKeywords(keywords, rows) ==
    LET all_rows == SelectSeq(rows, LAMBDA row : MatchesAll(row, keywords))
    IN  IF all_rows # <<>> THEN all_rows
        ELSE SelectSeq(rows, LAMBDA row : MatchesAny(row, keywords))

\* (variant: the fallback returns the last 10 records)
CapOrFallbackLastTen(found, rows) ==
    IF found # <<>> THEN Take(found, 10) ELSE LastN(rows, 10)

\* (variant: the fallback returns the first 5 records)
CapOrFallbackFirstFive(found, rows) ==
    IF found # <<>> THEN Take(found, 10) ELSE Take(rows, 5)

\* relevant_rows[:10] if relevant_rows else sheet_data[-5:]
CapOrFallback(found, rows) == IF found # <<>> THEN Take(found, 10) ELSE LastN(rows, 5)

FindRelevantPrRows(q, rows) ==
    IF PrNumber(q) # "" THEN RowsByNumber(PrNumber(q), rows)
    ELSE CapOrFallback(RowsByKeywords(Keywords(q), rows), rows)

---------------------------------------------------------------------------
(* Inputs of the matcher                                                   *)

MaxRows == 11

RowKinds ==
    { [req |-> IntCell(42), desc |-> StrCell("Ink pen")],
      [req |-> IntCell(7),  desc |-> StrCell("ink 42")] }

\* every worksheet of at most MaxRows records, numbered in order
SheetTables ==
    UNION { { [i \in 1..n |-> Row(i, f[i])] : f \in [1..n -> RowKinds] } : n \in 0..MaxRows }

PrQueries ==
    { "PR #42", "status of pr 7", "PR#9", "PR 042",
      "pr ink pen", "PR pen", "purchase request toner", "pr" }

PrInit ==
    /\ sheet_data \in SheetTables
    /\ pr_query = ""
    /\ relevant_rows = <<>>
    /\ pr_called = FALSE

\* relevant_rows = self._find_relevant_pr_rows(query, pr_rows)
FindRelevantPrRowsCall ==
    \E q \in PrQueries :
        /\ ~pr_called
        /\ pr_query' = q
        /\ relevant_rows' = FindRelevantPrRows(q, sheet_data)
        /\ pr_called' = TRUE
        /\ UNCHANGED sheet_data

\* no process_query run has begun
PqIdle ==
    /\ pc = "idle"
    /\ query = ""
    /\ awaited = NoValue
    /\ translated_query = ""
    /\ doc_type = ""
    /\ calls = <<>>
    /\ outcome = NoValue

\* the matcher is not in use: an empty worksheet, no call
PrIdle ==
    /\ sheet_data = <<>>
    /\ pr_query = ""
    /\ relevant_rows = <<>>
    /\ pr_called = FALSE

\* no retrieve_similar_chunks call has begun
RsIdle ==
    /\ rs_pc = "idle"
    /\ rs_args = [query |-> "", doc_type |-> "", top_k |-> 0]
    /\ rs_awaited = NoValue
    /\ rs_outcome = [kind |-> "none", text |-> "", chunks |-> <<>>]

\* no classify_document_type call has begun
ClIdle ==
    /\ cl_prompt = ""
    /\ cl_result = NoValue
    /\ cl_return = NoValue

\* no rerank_chunks call has begun
RkIdle ==
    /\ rk_pc = "idle"
    /\ chunks = <<>>
    /\ top_n = 0
    /\ scored_chunks = <<>>
    /\ top_chunks = <<>>
    /\ rk_return = NoValue
    /\ rk_calls = 0
    /\ rk_resp = NoValue

AsIdle ==
    /\ as_pc = "idle"
    /\ policy_chunks = <<>>
    /\ combined_policy = ""
    /\ as_awaited = NoValue
    /\ as_return = NoValue
    /\ as_calls = 0

FqIdle ==
    /\ fq_pc = "idle"
    /\ fq_query = ""
    /\ fq_i = 1
    /\ fq_retrievals = <<>>
    /\ all_faq_chunks = <<>>
    /\ fq_return = NoValue

FlIdle ==
    /\ fl_chunks = <<>>
    /\ fl_i = 0
    /\ faq_chunks = <<>>

\* the categories of FAISS_INDEXES and CHUNK_FILES
DocTypes == {"sop", "vmc", "vra", "pengadaan", "links"}

\* what _load_indexes_and_chunks leaves in self.faiss_indexes and self.chunks: an
\* index and the passages of its chunk file for every category (a category that
\* fails to load raises out of the constructor, and no service exists)
LoadedIndexes == [d \in DocTypes |-> "data/_indexes/faiss_index_" \o d \o ".index"]
LoadedChunks ==
    [d \in DocTypes |->
        <<"**Q: where is the " \o d \o " form?", "Procurement above the threshold needs approval.">>]

StLoaded ==
    /\ faiss_indexes = LoadedIndexes
    /\ self_chunks = LoadedChunks

RnIdle ==
    /\ runs = 0
    /\ results = {}

MaxTasks == 3
Tasks == 1..MaxTasks

CoIdle ==
    /\ co_pc = [t \in Tasks |-> "pending"]
    /\ running = 0
    /\ in_flight = 0
    /\ contextual_query = [t \in Tasks |-> ""]

\* the Slack workspace the handlers serve, and the clicks they are given
Threads == {"1700000001.000100", "1700000002.000200"}
Users == {"U1", "U2"}
MaxClicks == 2
Clicks == 1..MaxClicks

\* an empty dict
EmptyDict == [k \in {} |-> <<>>]

\* the blocks handle_mention sends with an answer; the emoji are written by their
\* Slack short names
Button(text, value, action_id) ==
    [type |-> "button", text |-> text, value |-> value, action_id |-> action_id]
AnswerBlocks(display_text) ==
    << [type |-> "section", text |-> display_text, elements |-> <<>>],
       [type |-> "actions", text |-> "",
        elements |-> << Button(":+1: Helpful", "helpful", "feedback_helpful"),
                        Button(":-1: Not Helpful", "not_helpful", "feedback_not_helpful"),
                        Button(":speech_balloon: Give Feedback", "give_feedback",
                               "feedback_text") >>] >>
AnswerText == "<@U1>\nThe PR form is on the portal."

VtIdle ==
    /\ thread_votes = EmptyDict
    /\ vt_pc = [h \in Clicks |-> "idle"]
    /\ vt_click = [h \in Clicks |-> [action_id |-> "", user |-> "", thread_ts |-> ""]]
    /\ updated_blocks = [h \in Clicks |-> <<>>]
    /\ displayed = [th \in Threads |-> AnswerBlocks(AnswerText)]
    /\ vt_reply = [h \in Clicks |-> ""]
    /\ vote_calls = [th \in Threads |-> [u \in Users |-> 0]]

ThIdle ==
    /\ thread_histories = EmptyDict
    /\ th_added = [th \in Threads |-> <<>>]

CkIdle ==
    /\ ck_pc = "idle"
    /\ ck_file = ""
    /\ ck_service = <<>>
    /\ ck_builder = <<>>

GtIdle ==
    /\ gt_called = FALSE
    /\ gt_query = ""
    /\ gt_return = FALSE

ExtIdle == VtIdle /\ ThIdle /\ CkIdle /\ GtIdle

RestIdle == AsIdle /\ FqIdle /\ FlIdle /\ StLoaded /\ RnIdle /\ CoIdle /\ ExtIdle

MatcherInit == PrInit /\ PqIdle /\ RsIdle /\ ClIdle /\ RkIdle /\ RestIdle
MatcherNext == FindRelevantPrRowsCall /\ UNCHANGED <<pqVars, rsVars, clVars, rkVars, restVars>>
SpecMatcher == MatcherInit /\ [][MatcherNext]_vars

---------------------------------------------------------------------------
(* Claims about the Structured-Record Matcher, under SpecMatcher           *)

\* result holds the first `cap` rows of `rows` that satisfy Sel, in table order
IsFirstOf(result, rows, Sel(_), cap) ==
    LET M == {i \in 1..Len(rows) : Sel(rows[i])}
    IN  /\ Len(result) = IF Cardinality(M) < cap THEN Cardinality(M) ELSE cap
        /\ \A j \in 1..Len(result) :
               \E i \in M : Cardinality({m \in M : m <= i}) = j /\ result[j] = rows[i]

\* the request number each query of PrQueries spells out, "" if it spells none
ExplicitNumber(q) ==
    CASE q = "PR #42" -> "42"
      [] q = "status of pr 7" -> "7"
      [] q = "PR#9" -> "9"
      [] q = "PR 042" -> "042"
      [] OTHER -> ""

\* the text of the row's 'Request #' field
RequestNoText(row) == Strip(CellStr(row["Request #"]))

\* C2: for every query and every non-empty record table the matcher returns a
\* non-empty list, also when the query's request number is the number of no row.
C2_NeverEmpty ==
    (pr_called /\ sheet_data # <<>>) => relevant_rows # <<>>

\* C9: when the query spells out a request number, the matcher returns exactly the
\* rows whose 'Request #' is that number, in table order, at most the first 10; no
\* row with another 'Request #' is returned.
C9_ExactNumberRows ==
    (pr_called /\ ExplicitNumber(pr_query) # "") =>
        /\ IsFirstOf(relevant_rows, sheet_data,
                     LAMBDA row : RequestNoText(row) = ExplicitNumber(pr_query), 10)
        /\ \A j \in 1..Len(relevant_rows) :
               RequestNoText(relevant_rows[j]) = ExplicitNumber(pr_query)

\* C9 witness: a lookup of request 42 in a sheet of 11 such rows and one other row
\* would not fit the bound, so: 10 rows returned out of 11 that carry the number.
C9_Witness ==
    /\ pr_called /\ pr_query = "PR #42"
    /\ Len(relevant_rows) = 10
    /\ Len(sheet_data) = 11

\* C9 witness of the filter: some rows are returned and a row of another request is not
C9_WitnessFiltered ==
    /\ pr_called /\ pr_query = "status of pr 7"
    /\ relevant_rows # <<>>
    /\ \E i \in 1..Len(sheet_data) : RequestNoText(sheet_data[i]) = "42"

\* no record matches the query: no row carries its number, or, for a query without
\* a number, no row holds all of its keywords and no row holds any of them
NoRecordMatches ==
    IF ExplicitNumber(pr_query) # ""
    THEN \A i \in 1..Len(sheet_data) :
             RequestNoText(sheet_data[i]) # ExplicitNumber(pr_query)
    ELSE \A i \in 1..Len(sheet_data) :
             /\ ~MatchesAll(sheet_data[i], Keywords(pr_query))
             /\ ~MatchesAny(sheet_data[i], Keywords(pr_query))

\* the last n rows of the table (all of them if it has fewer), in table order
IsLastOf(result, rows, n) ==
    /\ Len(result) = IF Len(rows) < n THEN Len(rows) ELSE n
    /\ \A j \in 1..Len(result) : result[j] = rows[Len(rows) - Len(result) + j]

QueryKeywords(q) ==
    CASE q = "pr ink pen" -> {"ink", "pen"}
      [] q = "PR pen" -> {"pen"}
      [] q = "purchase request toner" -> {"purchase", "request", "toner"}
      [] q = "PR #42" -> {}
      [] q = "status of pr 7" -> {"status"}
      [] q = "PR#9" -> {}
      [] q = "PR 042" -> {"042"}
      [] OTHER -> {}

\* a keyword has no space in it, so it is in the row's concatenated field values
\* exactly when it is in one of the field values
HoldsKeyword(row, kw) ==
    \E c \in 1..Len(Columns) : Contains(Lower(CellStr(row[Columns[c]])), kw)
HoldsEvery(row) == \A kw \in QueryKeywords(pr_query) : HoldsKeyword(row, kw)
HoldsSome(row) == \E kw \in QueryKeywords(pr_query) : HoldsKeyword(row, kw)
SomeRow(Sel(_)) == \E i \in 1..Len(sheet_data) : Sel(sheet_data[i])

\* C23: for a query without an explicit request number the result is the first 10,
\* in table order, of the rows holding every keyword of the query; only when no row
\* holds every keyword is it the first 10 of the rows holding at least one keyword.
C23_AllThenAny ==
    (pr_called /\ ExplicitNumber(pr_query) = "") =>
        IF SomeRow(HoldsEvery)
        THEN IsFirstOf(relevant_rows, sheet_data, HoldsEvery, 10)
        ELSE SomeRow(HoldsSome) =>
                 IsFirstOf(relevant_rows, sheet_data, HoldsSome, 10)

\* C23 witness: no row holds both keywords, all 11 rows hold one of them, and the
\* first 10 are returned
C23_Witness ==
    /\ pr_called /\ pr_query = "pr ink pen"
    /\ ~SomeRow(HoldsEvery)
    /\ Len(sheet_data) = 11 /\ \A i \in 1..11 : HoldsSome(sheet_data[i])
    /\ relevant_rows = Take(sheet_data, 10)

\* C23 witness: some rows hold both keywords, others only one, and only the former
\* are returned
C23_WitnessAllPass ==
    /\ pr_called /\ pr_query = "pr ink pen"
    /\ SomeRow(HoldsEvery)
    /\ \E i \in 1..Len(sheet_data) :
           HoldsSome(sheet_data[i]) /\ ~HoldsEvery(sheet_data[i])
    /\ \A j \in 1..Len(relevant_rows) : HoldsEvery(relevant_rows[j])

\* C24: when the query spells out no request number and neither the all-keywords
\* pass nor the any-keyword pass selects a row, the result is the last 5 records
\* of the table (all of them if it has fewer than 5), in table order.
C24_FallbackLastFive ==
    (pr_called /\ ExplicitNumber(pr_query) = ""
         /\ ~SomeRow(HoldsEvery) /\ ~SomeRow(HoldsSome)) =>
        IsLastOf(relevant_rows, sheet_data, 5)

\* C24 witness: neither pass selects a row of a table of 3 records, and the 3 are
\* returned in table order
C24_Witness ==
    /\ pr_called /\ ExplicitNumber(pr_query) = ""
    /\ ~SomeRow(HoldsEvery) /\ ~SomeRow(HoldsSome)
    /\ Len(sheet_data) = 3 /\ sheet_data[1] # sheet_data[3]
    /\ relevant_rows = sheet_data

\* C24 witness: neither pass selects a row of a table of 7 records, and the last 5
\* are returned
C24_WitnessLong ==
    /\ pr_called /\ ExplicitNumber(pr_query) = ""
    /\ ~SomeRow(HoldsEvery) /\ ~SomeRow(HoldsSome)
    /\ Len(sheet_data) = 7
    /\ relevant_rows = SubSeq(sheet_data, 3, 7)

---------------------------------------------------------------------------
(* RetrievalService.process_query                                          *)

\* the fixed keyword list of the rule-based route to 'links'
LinkKeywords ==
    << "link", "form", "where can i find", "i need the", "how do i access",
       "give me the", "pr form", "oracle", "catalogue", "item numbers",
       "waiver of competition", "woc", "bpa list", "catalog", "procurement tools",
       "resources", "submission form", "portal", "system" >>

\* has_link_keywords = any(keyword in query_lower for keyword in link_keywords)
HasLinkKeywords(q) ==
    LET query_lower == Lower(q)
    IN  \E k \in 1..Len(LinkKeywords) : Contains(query_lower, LinkKeywords[k])

\* the section labels of the composed context
FaqLabel == "FAQ Information (Direct Answer):\n"
AdditionalPolicyLabel == "Additional Policy Context:\n"
PolicyLabel == "Policy Information:\n"
SheetLabel == "PR Sheet Data (relevant rows):\n"

\* (variant: a failed translation is replaced by the raw text and the run goes on)
AfterTranslateCallFallback(v, q) ==
    IF v.kind = "exception"
    THEN [pc |-> "await_translate", awaited |-> StrValue(q), outcome |-> NoValue]
    ELSE [pc |-> "await_translate", awaited |-> v, outcome |-> NoValue]

\* Where the run stands once translate_to_indonesian(query) has been evaluated: an
\* exception it raised is caught by `except Exception`, logged and raised again, so
\* the run ends with it; a returned value is what `await` is applied to next.
AfterTranslateCall(v, q) ==
    IF v.kind = "exception"
    THEN [pc |-> "raised", awaited |-> NoValue, outcome |-> v]
    ELSE [pc |-> "await_translate", awaited |-> v, outcome |-> NoValue]

PqQueries ==
    { "where can I find the PR form", "Where is the WOC?", "I need the Oracle catalogue",
      "LINK please", "open the Portal", "platform fee", "vendor information",
      "What is the SOP for vendor approval?", "How do I conduct a VRA?",
      "apa itu pengadaan", "procurement thresholds", "vendor risk",
      "PR #42", "status of pr 7", "purchase request toner", "hello" }

TranslateResponses ==
    { Content("di mana formulir PR"), Content(" apa itu SOP \n"), Content("pr 42"),
      Content(""), NullContent, ProviderFailure }

\* await retrieval_service.process_query(query): the run begins
ProcessQuery ==
    \E q \in PqQueries :
        /\ pc = "idle"
        /\ pc' = "translate"
        /\ query' = q
        /\ UNCHANGED <<awaited, translated_query, doc_type, calls, outcome>>

\* Step 1, the call: self.openai_service.translate_to_indonesian(query)
CallTranslate ==
    \E resp \in TranslateResponses :
        LET after == AfterTranslateCall(TranslateToIndonesian(resp), query)
        IN  /\ pc = "translate"
            /\ calls' = Append(calls, [name |-> "translate", ok |-> resp.kind # "error"])
            /\ pc' = after.pc
            /\ awaited' = after.awaited
            /\ outcome' = after.outcome
            /\ UNCHANGED <<query, translated_query, doc_type>>

\* Step 1, the await applied to what the call returned. translate_to_indonesian is
\* a plain function and returns a str: the await raises TypeError, which `except
\* Exception` logs and raises again. No run gets past this line.
AwaitTranslate ==
    LET r == Await(awaited)
    IN  /\ pc = "await_translate"
        /\ awaited' = NoValue
        /\ IF r.kind = "exception"
           THEN /\ pc' = "raised"
                /\ outcome' = r
                /\ UNCHANGED translated_query
           ELSE /\ pc' = "classify"
                /\ translated_query' = r.text
                /\ UNCHANGED outcome
        /\ UNCHANGED <<query, doc_type, calls>>

Init == PqIdle /\ PrIdle /\ RsIdle /\ ClIdle /\ RkIdle /\ RestIdle
Next ==
    \/ ProcessQuery /\ UNCHANGED <<prVars, rsVars, clVars, rkVars, restVars>>
    \/ CallTranslate /\ UNCHANGED <<prVars, rsVars, clVars, rkVars, restVars>>
    \/ AwaitTranslate /\ UNCHANGED <<prVars, rsVars, clVars, rkVars, restVars>>
Spec == Init /\ [][Next]_vars

---------------------------------------------------------------------------
(* Claims about process_query, under Spec                                  *)

\* the run has ended: it returned a context or raised
Finished == outcome.kind # "none"

\* every provider call the run made succeeded
AllCallsOk == \A i \in 1..Len(calls) : calls[i].ok

\* the named provider call was made and failed
CallFailed(name) == \E i \in 1..Len(calls) : calls[i].name = name /\ ~calls[i].ok

\* the first position of sub in s, 0 if it does not occur
IndexOf(s, sub) ==
    IF Contains(s, sub)
    THEN CHOOSE i \in 1..Len(s) :
             /\ SubSeq(s, i, i + Len(sub) - 1) = sub
             /\ \A j \in 1..(i - 1) : SubSeq(s, j, j + Len(sub) - 1) # sub
    ELSE 0

\* the sections of a composed context stand in the fixed order: the FAQ section
\* first and then the additional policy section, or the policy section alone, and
\* the sheet section after them
LaidOutByRule(t) ==
    /\ Contains(t, FaqLabel) => StartsWith(t, FaqLabel) /\ ~Contains(t, PolicyLabel)
    /\ Contains(t, AdditionalPolicyLabel) =>
           /\ Contains(t, FaqLabel)
           /\ IndexOf(t, AdditionalPolicyLabel) > IndexOf(t, FaqLabel)
    /\ Contains(t, PolicyLabel) => StartsWith(t, PolicyLabel)
    /\ Contains(t, SheetLabel) =>
           /\ IndexOf(t, SheetLabel) > IndexOf(t, FaqLabel)
           /\ IndexOf(t, SheetLabel) > IndexOf(t, AdditionalPolicyLabel)
           /\ IndexOf(t, SheetLabel) > IndexOf(t, PolicyLabel)

\* C1: a run of process_query on a query that contains a link keyword (in any
\* letter case) routes to 'links' and never calls the classifier.
C1_LinksWithoutClassifier ==
    (Finished /\ AllCallsOk /\ HasLinkKeywords(query)) =>
        /\ doc_type = "links"
        /\ \A i \in 1..Len(calls) : calls[i].name # "classify"

\* C4: the context a run of process_query returns is laid out by the fixed rule:
\* FAQ first, then policy, then the structured records.
C4_ComposedByRule ==
    (Finished /\ AllCallsOk) =>
        /\ outcome.kind = "context"
        /\ LaidOutByRule(outcome.text)

\* C5: a run of process_query all of whose external calls succeed ends by
\* returning a context string, not by raising.
C5_ReturnsContext ==
    (Finished /\ AllCallsOk) => outcome.kind # "exception"

\* C6: if the normalization call or the classification call fails, the run ends
\* with that failure raised: no context is returned, no translation or category is
\* substituted, and no later stage makes a call.
C6_FailurePropagates ==
    (CallFailed("translate") \/ CallFailed("classify")) =>
        /\ pc = "raised"
        /\ outcome = Raised("APIError")
        /\ translated_query = ""
        /\ doc_type = ""
        /\ awaited = NoValue
        /\ ~calls[Len(calls)].ok
        /\ \A i \in 1..(Len(calls) - 1) : calls[i].ok

\* C6 witness: the translation call failed and the run has ended with its error
C6_Witness ==
    /\ pc = "raised"
    /\ CallFailed("translate")
    /\ outcome = Raised("APIError")

---------------------------------------------------------------------------
(* RetrievalService.retrieve_similar_chunks                                *)

TOP_K == 12
FAQ_TOP_K == 20

RsQueries ==
    { "di mana formulir PR", "apa itu SOP", "pr 42", "", "risiko vendor", "ambang pengadaan" }

EmbeddingResponses == { Content("v1"), Content("v2"), ProviderFailure }

\* await self.retrieve_similar_chunks(query, doc_type, top_k): the call begins
RetrieveSimilarChunks ==
    \E q \in RsQueries, d \in DocTypes \cup {"unknown"}, k \in {TOP_K, FAQ_TOP_K} :
        /\ rs_pc = "idle"
        /\ rs_pc' = "embed"
        /\ rs_args' = [query |-> q, doc_type |-> d, top_k |-> k]
        /\ UNCHANGED <<rs_awaited, rs_outcome>>

\* the call self.openai_service.get_embedding(query); what it raises is caught by
\* `except Exception`, logged and raised again
CallGetEmbedding ==
    \E resp \in EmbeddingResponses :
        LET v == GetEmbedding(resp)
        IN  /\ rs_pc = "embed"
            /\ IF v.kind = "exception"
               THEN /\ rs_pc' = "raised"
                    /\ rs_outcome' = [kind |-> "exception", text |-> v.text, chunks |-> <<>>]
                    /\ UNCHANGED rs_awaited
               ELSE /\ rs_pc' = "await_embed"
                    /\ rs_awaited' = v
                    /\ UNCHANGED rs_outcome
            /\ UNCHANGED rs_args

\* the await applied to what get_embedding returned. get_embedding is a plain
\* function and returns a numpy array: the await raises TypeError, which `except
\* Exception` logs and raises again. No call gets to the index search.
AwaitEmbedding ==
    LET r == Await(rs_awaited)
    IN  /\ rs_pc = "await_embed"
        /\ rs_awaited' = NoValue
        /\ IF r.kind = "exception"
           THEN /\ rs_pc' = "raised"
                /\ rs_outcome' = [kind |-> "exception", text |-> r.text, chunks |-> <<>>]
           ELSE /\ rs_pc' = "search"
                /\ UNCHANGED rs_outcome
        /\ UNCHANGED rs_args

RetrieveInit == PqIdle /\ PrIdle /\ RsIdle /\ ClIdle /\ RkIdle /\ RestIdle
RetrieveNext ==
    \/ RetrieveSimilarChunks /\ UNCHANGED <<pqVars, prVars, clVars, rkVars, restVars>>
    \/ CallGetEmbedding /\ UNCHANGED <<pqVars, prVars, clVars, rkVars, restVars>>
    \/ AwaitEmbedding /\ UNCHANGED <<pqVars, prVars, clVars, rkVars, restVars>>
SpecRetrieve == RetrieveInit /\ [][RetrieveNext]_vars

\* C7: retrieve_similar_chunks ends by returning at most k stored passages (the
\* passages at the ordinals the index returned, out-of-range ordinals dropped); it
\* raises only what the embedding provider raised.
C7_ReturnsPassages ==
    (rs_outcome.kind # "none" /\ rs_outcome.text # "APIError") =>
        /\ rs_outcome.kind = "chunks"
        /\ Len(rs_outcome.chunks) <= rs_args.top_k

---------------------------------------------------------------------------
(* OpenAIService.classify_document_type                                    *)

\* the if/elif chain over result.lower()
ClassifyResult(result) ==
    LET lowered == Lower(result)
    IN  IF Contains(lowered, "sop") THEN "sop"
        ELSE IF Contains(lowered, "pengadaan") THEN "pengadaan"
        ELSE IF Contains(lowered, "vra") THEN "vra"
        ELSE "vmc"

ClPrompts ==
    { "apa itu SOP", "risiko vendor", "ambang pengadaan", "piagam VMC", "di mana formulir",
      "links", "" }

ClassifierResponses ==
    { Content("sop"), Content("SOP"), Content("pengadaan"), Content("vra"), Content("vmc"),
      Content("links"), Content("Links"), Content(" links\n"), Content("Category: links"),
      Content("vmc or vra"), Content("sop, pengadaan"), Content("The category is VRA."),
      Content("links (not sop)"), Content("unknown"), Content(""), Content("VMC / links"),
      NullContent, ProviderFailure }

\* classify_document_type(prompt): one completion call, then the if/elif chain; what
\* chat_completion raises goes to the caller
ClassifyDocumentType ==
    \E resp \in ClassifierResponses :
        LET result == ChatCompletion(resp)
        IN  /\ cl_return = NoValue
            /\ cl_result' = result
            /\ cl_return' = IF result.kind = "exception" THEN result
                            ELSE StrValue(ClassifyResult(result.text))
            /\ UNCHANGED cl_prompt

ClassifyInit ==
    /\ cl_prompt \in ClPrompts
    /\ cl_result = NoValue
    /\ cl_return = NoValue
    /\ PqIdle /\ PrIdle /\ RsIdle /\ RkIdle /\ RestIdle
ClassifyNext == ClassifyDocumentType /\ UNCHANGED <<pqVars, prVars, rsVars, rkVars, restVars>>
SpecClassify == ClassifyInit /\ [][ClassifyNext]_vars

\* the fixed set of categories, in the order their names are looked for, and the
\* fallback category
CategoryOrder == <<"sop", "pengadaan", "vra", "vmc", "links">>
FallbackCategory == "vmc"

\* the categories whose name occurs in the response, in any letter case
NamedIn(response) ==
    {i \in 1..Len(CategoryOrder) : Contains(Lower(response), CategoryOrder[i])}

\* C8: classify_document_type returns the first category of the fixed order whose
\* name occurs in the response (in any letter case), the fallback category only
\* when the response names no category of the set, and always a member of the set.
C8_FirstNamedCategory ==
    cl_return.kind = "str" =>
        /\ \E i \in 1..Len(CategoryOrder) : cl_return.text = CategoryOrder[i]
        /\ IF NamedIn(cl_result.text) = {}
           THEN cl_return.text = FallbackCategory
           ELSE \E i \in NamedIn(cl_result.text) :
                    /\ cl_return.text = CategoryOrder[i]
                    /\ \A j \in NamedIn(cl_result.text) : i <= j

---------------------------------------------------------------------------
(* OpenAIService.rerank_chunks                                             *)

DigitValue ==
    [c \in {"1", "2", "3", "4", "5", "6", "7", "8", "9"} |->
        CASE c = "1" -> 1 [] c = "2" -> 2 [] c = "3" -> 3 [] c = "4" -> 4 [] c = "5" -> 5
          [] c = "6" -> 6 [] c = "7" -> 7 [] c = "8" -> 8 [] c = "9" -> 9]

\* \b between the characters i and i+1 of s (i = 0: the start, i = Len(s): the end)
WordAt(s, i) == i >= 1 /\ i <= Len(s) /\ IsWord(Ch(s, i))
Boundary(s, i) == WordAt(s, i) # WordAt(s, i + 1)

\* (variant: ([1-9]|10) without the two \b)
ScoreAtAnywhere(s, p) ==
    IF p < Len(s) /\ SubSeq(s, p, p + 1) = "10" THEN 10
    ELSE IF Ch(s, p) \in DOMAIN DigitValue THEN DigitValue[Ch(s, p)]
    ELSE 0

\* \b([1-9]|10)\b tried at position p: the number matched, 0 for no match
ScoreAt(s, p) ==
    IF ~Boundary(s, p - 1) THEN 0
    ELSE IF Ch(s, p) \in DOMAIN DigitValue /\ Boundary(s, p) THEN DigitValue[Ch(s, p)]
    ELSE IF p < Len(s) /\ SubSeq(s, p, p + 1) = "10" /\ Boundary(s, p + 1) THEN 10
    ELSE 0

\* re.search: the match at the leftmost position that has one
RECURSIVE ScoreSearch(_, _)
ScoreSearch(s, p) ==
    IF p > Len(s) THEN 0
    ELSE IF ScoreAt(s, p) # 0 THEN ScoreAt(s, p)
    ELSE ScoreSearch(s, p + 1)

\* the try block of the loop: int(match.group()) if match else 0, and 0 when the
\* completion call raised
ChunkScore(resp) ==
    LET score_text == ChatCompletion(resp)
    IN  IF score_text.kind = "exception" THEN 0 ELSE ScoreSearch(score_text.text, 1)

\* an insertion that puts an element in front of the earlier elements of its score
RECURSIVE InsertByScoreTiesFirst(_, _)
InsertByScoreTiesFirst(x, sorted) ==
    IF sorted = <<>> THEN <<x>>
    ELSE IF Head(sorted).score > x.score
         THEN <<Head(sorted)>> \o InsertByScoreTiesFirst(x, Tail(sorted))
         ELSE <<x>> \o sorted

\* list.sort(key=lambda x: x[0], reverse=True) is stable: an element goes behind
\* the earlier elements of a score at least its own
RECURSIVE InsertByScore(_, _)
InsertByScore(x, sorted) ==
    IF sorted = <<>> THEN <<x>>
    ELSE IF Head(sorted).score >= x.score
         THEN <<Head(sorted)>> \o InsertByScore(x, Tail(sorted))
         ELSE <<x>> \o sorted

RECURSIVE SortByScore(_)
SortByScore(seq) ==
    IF seq = <<>> THEN <<>>
    ELSE InsertByScore(seq[Len(seq)], SortByScore(SubSeq(seq, 1, Len(seq) - 1)))

MaxChunks == 3
MaxTopN == 3

Passages == { "**Q: where is the PR form?", "Procurement above the threshold needs approval." }

ChunkLists == UNION { [1..n -> Passages] : n \in 0..MaxChunks }

ScoreResponses ==
    { Content("7"), Content("10"), Content(" 3\n"), Content("Score: 7/10"), Content("0.5"),
      Content("15"), Content("7a"), Content("n/a"), NullContent, ProviderFailure }

\* rerank_chunks(query, chunks, top_n) is called; the query only goes into the prompt
RerankChunks ==
    \E cs \in ChunkLists, n \in 0..MaxTopN :
        /\ rk_pc = "idle"
        /\ rk_pc' = "score"
        /\ chunks' = cs
        /\ top_n' = n
        /\ scored_chunks' = <<>>
        /\ rk_calls' = 0
        /\ rk_resp' = NoValue
        /\ UNCHANGED <<top_chunks, rk_return>>

\* one turn of `for i, chunk in enumerate(chunks)`. The entry keeps i next to
\* (score, chunk); the sort key reads the score only.
ScoreChunk ==
    \E resp \in ScoreResponses :
        LET i == Len(scored_chunks) + 1
        IN  /\ rk_pc = "score"
            /\ i <= Len(chunks)
            /\ scored_chunks' =
                   Append(scored_chunks, [score |-> ChunkScore(resp), chunk |-> chunks[i], i |-> i])
            /\ rk_calls' = rk_calls + 1
            /\ rk_resp' = resp
            /\ UNCHANGED <<rk_pc, chunks, top_n, top_chunks, rk_return>>

\* after the loop: the sort, scored_chunks[:top_n], and the join
SortAndJoin ==
    LET sorted == SortByScore(scored_chunks)
        top == [j \in 1..Len(Take(sorted, top_n)) |-> sorted[j].chunk]
    IN  /\ rk_pc = "score"
        /\ Len(scored_chunks) = Len(chunks)
        /\ scored_chunks' = sorted
        /\ top_chunks' = top
        /\ rk_return' = StrValue(Join("\n\n", top))
        /\ rk_pc' = "done"
        /\ rk_resp' = NoValue
        /\ UNCHANGED <<chunks, top_n, rk_calls>>

RerankInit == PqIdle /\ PrIdle /\ RsIdle /\ ClIdle /\ RkIdle /\ RestIdle
RerankNext ==
    \/ RerankChunks /\ UNCHANGED <<pqVars, prVars, rsVars, clVars, restVars>>
    \/ ScoreChunk /\ UNCHANGED <<pqVars, prVars, rsVars, clVars, restVars>>
    \/ SortAndJoin /\ UNCHANGED <<pqVars, prVars, rsVars, clVars, restVars>>
SpecRerank == RerankInit /\ [][RerankNext]_vars

\* C3: rerank_chunks outputs at most top_n passages, each the input candidate of
\* a position of its own, in non-increasing order of the score assigned, candidates
\* of equal score in the order they had in the input.
C3_TopByScoreStable ==
    rk_pc = "done" =>
        /\ Len(top_chunks) <= top_n
        /\ Len(top_chunks) <= Len(chunks)
        /\ \A j \in 1..Len(top_chunks) :
               /\ scored_chunks[j].i \in 1..Len(chunks)
               /\ top_chunks[j] = chunks[scored_chunks[j].i]
        /\ \A j, k \in 1..Len(top_chunks) :
               j < k =>
                   /\ scored_chunks[j].i # scored_chunks[k].i
                   /\ scored_chunks[j].score >= scored_chunks[k].score
                   /\ scored_chunks[j].score = scored_chunks[k].score
                          => scored_chunks[j].i < scored_chunks[k].i
        /\ rk_return = StrValue(Join("\n\n", top_chunks))

\* more candidates than top_n, a later candidate moved to the front, and two
\* candidates of equal score in the output
C3_Witness ==
    /\ rk_pc = "done"
    /\ Len(chunks) > top_n
    /\ Len(top_chunks) = 2
    /\ scored_chunks[1].i # 1
    /\ scored_chunks[1].score = scored_chunks[2].score
    /\ top_chunks[1] # top_chunks[2]

\* the integers 1..10 as they are written
ScoreNumerals ==
    [t \in {"1", "2", "3", "4", "5", "6", "7", "8", "9", "10"} |->
        IF t = "10" THEN 10 ELSE DigitValue[t]]

\* the first integer between 1 and 10 that stands in the text as a word of its own,
\* 0 if none does
RECURSIVE FirstNumeral(_)
FirstNumeral(words) ==
    IF words = <<>> THEN 0
    ELSE IF Head(words) \in DOMAIN ScoreNumerals THEN ScoreNumerals[Head(words)]
    ELSE FirstNumeral(Tail(words))

\* the score the claim gives a candidate whose scoring call was answered by resp
ClaimedScore(resp) ==
    IF resp.kind = "content" THEN FirstNumeral(FindAllWords(resp.text, 1)) ELSE 0

\* C22: each turn of the loop adds one entry, for the next candidate, whose score
\* is the first integer 1..10 in the response to that candidate's own call, or 0
\* when there is none or the call failed; the turn leaves the entries of the
\* earlier candidates as they were and the loop goes on to the last candidate; and
\* rerank_chunks ends with a string, never with an exception.
C22_ScoreOrZero ==
    /\ [](rk_return.kind # "exception")
    /\ [](rk_pc = "done" => (rk_return.kind = "str" /\ Len(scored_chunks) = Len(chunks)))
    /\ [][(rk_pc = "score" /\ rk_pc' = "score") =>
             /\ Len(scored_chunks') = Len(scored_chunks) + 1
             /\ SubSeq(scored_chunks', 1, Len(scored_chunks)) = scored_chunks
             /\ scored_chunks'[Len(scored_chunks')].i = Len(scored_chunks')
             /\ scored_chunks'[Len(scored_chunks')].chunk = chunks[Len(scored_chunks')]
             /\ scored_chunks'[Len(scored_chunks')].score = ClaimedScore(rk_resp')]_vars

\* C22 witness: the call for the second of three candidates failed, the first
\* keeps its 7, the third was scored after the failure, and the call has returned
C22_Witness ==
    /\ rk_pc = "done" /\ Len(chunks) = 3 /\ top_n = 3
    /\ rk_return.kind = "str"
    /\ \E j, k, l \in 1..3 :
           /\ scored_chunks[j].i = 1 /\ scored_chunks[j].score = 7
           /\ scored_chunks[k].i = 2 /\ scored_chunks[k].score = 0
           /\ scored_chunks[l].i = 3 /\ scored_chunks[l].score = 10

\* C22 witness: the scoring call of the second candidate has just failed
C22_WitnessFailure ==
    /\ rk_pc = "score" /\ Len(scored_chunks) = 2
    /\ rk_resp = ProviderFailure
    /\ scored_chunks[1].score = 7 /\ scored_chunks[2].score = 0

---------------------------------------------------------------------------
(* RetrievalService._assess_policy_relevance                               *)

FloatValue(text) == [kind |-> "float", text |-> text]

\* (variant: the function without its `if not policy_chunks` test)
AssessEntryUnguarded(cs) == "call"

\* `if not policy_chunks: return 0.0`, ahead of everything else
AssessEntry(cs) == IF cs = <<>> THEN "returned" ELSE "call"

AssessResponses ==
    { Content("0.9"), Content("0.4"), Content("1.7"), Content("-0.2"), Content("high"),
      Content(" 0.9\n"), NullContent, ProviderFailure }

\* await self._assess_policy_relevance(query, policy_chunks): the coroutine starts;
\* for a non-empty list it builds combined_policy from policy_chunks[:3]
AssessPolicyRelevance(cs) ==
    /\ as_pc = "idle"
    /\ policy_chunks' = cs
    /\ as_pc' = AssessEntry(cs)
    /\ as_return' = IF AssessEntry(cs) = "returned" THEN FloatValue("0.0") ELSE NoValue
    /\ combined_policy' = IF AssessEntry(cs) = "returned" THEN "" ELSE Join("\n\n", Take(cs, 3))
    /\ UNCHANGED <<as_awaited, as_calls>>

\* the call self.openai_service.chat_completion(messages) of line 128; what it
\* raises is caught by `except Exception`, which returns 0.0
AssessCallCompletion ==
    \E resp \in AssessResponses :
        LET v == ChatCompletion(resp)
        IN  /\ as_pc = "call"
            /\ as_calls' = as_calls + 1
            /\ as_awaited' = v
            /\ IF v.kind = "exception"
               THEN as_pc' = "returned" /\ as_return' = FloatValue("0.0")
               ELSE as_pc' = "await" /\ UNCHANGED as_return
            /\ UNCHANGED <<policy_chunks, combined_policy>>

\* the await applied to the str that chat_completion returned: it raises TypeError,
\* which `except Exception` catches, and the function returns 0.0. The parsing of
\* lines 129-134 is not reached.
AssessAwaitCompletion ==
    LET r == Await(as_awaited)
    IN  /\ as_pc = "await"
        /\ IF r.kind = "exception"
           THEN as_pc' = "returned" /\ as_return' = FloatValue("0.0")
           ELSE as_pc' = "parse" /\ UNCHANGED as_return
        /\ UNCHANGED <<policy_chunks, combined_policy, as_awaited, as_calls>>

\* One caller hands one candidate list to the reranker and then to the assessor.
otherThanAs ==
    <<pqVars, prVars, rsVars, clVars, rkVars, fqVars, flVars, stVars, rnVars, coVars, extVars>>

CandidatesInit == PqIdle /\ PrIdle /\ RsIdle /\ ClIdle /\ RkIdle /\ RestIdle
CandidatesNext ==
    \/ RerankChunks /\ UNCHANGED <<pqVars, prVars, rsVars, clVars, restVars>>
    \/ ScoreChunk /\ UNCHANGED <<pqVars, prVars, rsVars, clVars, restVars>>
    \/ SortAndJoin /\ UNCHANGED <<pqVars, prVars, rsVars, clVars, restVars>>
    \/ rk_pc = "done" /\ AssessPolicyRelevance(chunks) /\ UNCHANGED otherThanAs
    \/ AssessCallCompletion /\ UNCHANGED otherThanAs
    \/ AssessAwaitCompletion /\ UNCHANGED otherThanAs
SpecCandidates == CandidatesInit /\ [][CandidatesNext]_vars

\* C11: for an empty candidate list rerank_chunks returns the empty string and
\* _assess_policy_relevance returns 0.0, and neither makes a provider call.
C11_EmptyCandidates ==
    /\ (rk_pc = "done" /\ chunks = <<>>) => (rk_return = StrValue("") /\ rk_calls = 0)
    /\ (as_pc # "idle" /\ policy_chunks = <<>>) =>
           /\ as_pc = "returned"
           /\ as_return = FloatValue("0.0")
           /\ as_calls = 0

\* both functions have returned for the empty list
C11_Witness ==
    /\ rk_pc = "done" /\ chunks = <<>> /\ rk_return = StrValue("")
    /\ as_pc = "returned" /\ policy_chunks = <<>> /\ as_return = FloatValue("0.0")

\* the score the claim gives for what the completion call answered or raised
ClaimedRelevance(v) ==
    CASE v.kind = "exception" -> "0.0"
      [] v.kind = "str" /\ v.text = "0.9" -> "0.9"
      [] v.kind = "str" /\ v.text = "0.4" -> "0.4"
      [] v.kind = "str" /\ v.text = "1.7" -> "1.0"
      [] v.kind = "str" /\ v.text = "-0.2" -> "0.0"
      [] OTHER -> "0.5"

\* C12: for a non-empty candidate list _assess_policy_relevance returns the model's
\* number clamped to [0,1], 0.5 when the response is no number, 0.0 when the call
\* failed, and it puts at most the first 3 candidates in its prompt.
C12_ClampedScore ==
    (as_pc = "returned" /\ policy_chunks # <<>>) =>
        /\ as_return = FloatValue(ClaimedRelevance(as_awaited))
        /\ combined_policy = Join("\n\n", Take(policy_chunks, 3))

---------------------------------------------------------------------------
(* Further claims about process_query, under Spec                          *)

\* C13: every run of process_query invokes the assessor and after it the FAQ
\* finder, whatever score the assessor returned.
C13_FaqAfterAssessor ==
    (Finished /\ AllCallsOk) =>
        \E i, j \in 1..Len(calls) :
            /\ i < j
            /\ calls[i].name = "assess"
            /\ calls[j].name = "faq"

EndsWith(s, suffix) ==
    Len(suffix) <= Len(s) /\ SubSeq(s, Len(s) - Len(suffix) + 1, Len(s)) = suffix

\* C16: the context a run returns has no leading or trailing whitespace and no
\* section label left without content after it.
C16_NoEmptySection ==
    (Finished /\ AllCallsOk) =>
        /\ outcome.kind = "context"
        /\ outcome.text = Strip(outcome.text)
        /\ \A label \in {FaqLabel, AdditionalPolicyLabel, PolicyLabel, SheetLabel} :
               /\ ~EndsWith(outcome.text, Strip(label))
               /\ ~Contains(outcome.text, label \o "\n")

\* C17: the routing decision of a run is taken on the normalized query: the run
\* routes to 'links' exactly when the normalized query holds a link keyword, and
\* to a category of the corpus otherwise.
C17_RoutedOnNormalized ==
    (Finished /\ AllCallsOk) =>
        /\ doc_type \in DocTypes
        /\ HasLinkKeywords(translated_query) => doc_type = "links"

---------------------------------------------------------------------------
(* RetrievalService._search_faq_content                                    *)

\* the list of `for doc_type in [...]`
FaqCategories == <<"sop", "pengadaan", "vra", "vmc", "links">>

\* await self._search_faq_content(query): the coroutine starts
SearchFaqContent ==
    \E q \in RsQueries :
        /\ fq_pc = "idle"
        /\ fq_pc' = "loop"
        /\ fq_query' = q
        /\ fq_i' = 1
        /\ all_faq_chunks' = <<>>
        /\ UNCHANGED <<fq_retrievals, fq_return>>

\* one turn of the loop begins: retrieve_similar_chunks(query, doc_type, top_k=20)
FaqRetrieve ==
    /\ fq_pc = "loop"
    /\ fq_i <= Len(FaqCategories)
    /\ fq_pc' = "retrieving"
    /\ rs_pc' = "embed"
    /\ rs_args' = [query |-> fq_query, doc_type |-> FaqCategories[fq_i], top_k |-> FAQ_TOP_K]
    /\ rs_awaited' = NoValue
    /\ rs_outcome' = [kind |-> "none", text |-> "", chunks |-> <<>>]
    /\ UNCHANGED <<fq_query, fq_i, fq_retrievals, all_faq_chunks, fq_return>>

\* (variant: what retrieve_similar_chunks raised leaves _search_faq_content)
FaqCatchReraise ==
    /\ fq_pc = "retrieving"
    /\ rs_pc = "raised"
    /\ fq_retrievals' = Append(fq_retrievals,
           [doc_type |-> rs_args.doc_type, top_k |-> rs_args.top_k, outcome |-> rs_outcome])
    /\ fq_pc' = "returned"
    /\ fq_return' = Raised(rs_outcome.text)
    /\ rs_pc' = "idle"
    /\ UNCHANGED <<rs_args, rs_awaited, rs_outcome, fq_query, fq_i, all_faq_chunks>>

\* `except Exception` of the turn: what retrieve_similar_chunks raised is logged and
\* the loop goes on with the next category. (A turn whose retrieval returned would
\* run the filter, FilterChunk below, over the chunks; no retrieval returns.)
FaqCatch ==
    /\ fq_pc = "retrieving"
    /\ rs_pc = "raised"
    /\ fq_retrievals' = Append(fq_retrievals,
           [doc_type |-> rs_args.doc_type, top_k |-> rs_args.top_k, outcome |-> rs_outcome])
    /\ fq_i' = fq_i + 1
    /\ fq_pc' = "loop"
    /\ rs_pc' = "idle"
    /\ UNCHANGED <<rs_args, rs_awaited, rs_outcome, fq_query, all_faq_chunks, fq_return>>

\* after the loop: the rerank of the union when there is one, "" otherwise
FaqFinish ==
    /\ fq_pc = "loop"
    /\ fq_i > Len(FaqCategories)
    /\ IF all_faq_chunks # <<>>
       THEN fq_pc' = "rerank" /\ UNCHANGED fq_return
       ELSE fq_pc' = "returned" /\ fq_return' = StrValue("")
    /\ UNCHANGED <<fq_query, fq_i, fq_retrievals, all_faq_chunks>>

otherThanFq ==
    <<pqVars, prVars, rsVars, clVars, rkVars, asVars, flVars, stVars, rnVars, coVars, extVars>>
otherThanFqRs ==
    <<pqVars, prVars, clVars, rkVars, asVars, flVars, stVars, rnVars, coVars, extVars>>

FaqInit == PqIdle /\ PrIdle /\ RsIdle /\ ClIdle /\ RkIdle /\ RestIdle
FaqNext ==
    \/ SearchFaqContent /\ UNCHANGED otherThanFq
    \/ FaqRetrieve /\ UNCHANGED otherThanFqRs
    \/ fq_pc = "retrieving" /\ CallGetEmbedding /\ UNCHANGED <<otherThanFqRs, fqVars>>
    \/ fq_pc = "retrieving" /\ AwaitEmbedding /\ UNCHANGED <<otherThanFqRs, fqVars>>
    \/ FaqCatch /\ UNCHANGED otherThanFqRs
    \/ FaqFinish /\ UNCHANGED otherThanFq
SpecFaq == FaqInit /\ [][FaqNext]_vars

\* no embedding request of the call was answered by a provider error
FaqProviderOk ==
    \A i \in 1..Len(fq_retrievals) : fq_retrievals[i].outcome.text # "APIError"

\* C14: _search_faq_content retrieves from each of the five categories with
\* k = 20, and returns "" only when no retrieved passage passed the filter; what it
\* returns is made of at most 3 filtered passages.
C14_RetrievesEveryCategory ==
    (fq_pc = "returned" /\ FaqProviderOk) =>
        /\ Len(fq_retrievals) = Len(FaqCategories)
        /\ \A i \in 1..Len(fq_retrievals) :
               /\ fq_retrievals[i].doc_type = FaqCategories[i]
               /\ fq_retrievals[i].top_k = 20
               /\ fq_retrievals[i].outcome.kind = "chunks"
        /\ fq_return.text = "" => all_faq_chunks = <<>>

\* the retrievals of the call that raised
FailedRetrievals ==
    {i \in 1..Len(fq_retrievals) : fq_retrievals[i].outcome.kind = "exception"}

---------------------------------------------------------------------------
(* The filter of _search_faq_content: the loop `for chunk in chunks`       *)

FaqHeaderPatterns == <<"frequently asked questions", "## frequently asked questions">>
QaPatterns == <<"**q:", "**a:", "q:", "a:">>

\* any(pattern in chunk_lower for pattern in patterns)
AnyPatternIn(patterns, chunk_lower) ==
    \E i \in 1..Len(patterns) : Contains(chunk_lower, patterns[i])

\* (variant: the patterns are looked for in the chunk as written)
IsFaqChunkCaseSensitive(chunk) ==
    AnyPatternIn(FaqHeaderPatterns, chunk) \/ AnyPatternIn(QaPatterns, chunk)

\* has_faq_header or has_qa_pattern, both taken on chunk.lower()
IsFaqChunk(chunk) ==
    LET chunk_lower == Lower(chunk)
        has_faq_header == AnyPatternIn(FaqHeaderPatterns, chunk_lower)
        has_qa_pattern == AnyPatternIn(QaPatterns, chunk_lower)
    IN  has_faq_header \/ has_qa_pattern

MaxRetrieved == 2

FilterPassages ==
    { "**Q: where is the PR form?", "**A: on the portal", "## Frequently Asked Questions",
      "FREQUENTLY ASKED QUESTIONS", "Q: who approves", "faq", "Q and A",
      "Procurement above the threshold needs approval.", "Agenda: vendor list", "" }

RetrievedLists == UNION { [1..n -> FilterPassages] : n \in 0..MaxRetrieved }

\* one turn of `for chunk in chunks` (lines 222-237)
FilterChunk ==
    /\ fl_i < Len(fl_chunks)
    /\ fl_i' = fl_i + 1
    /\ faq_chunks' = IF IsFaqChunk(fl_chunks[fl_i + 1])
                     THEN Append(faq_chunks, fl_chunks[fl_i + 1])
                     ELSE faq_chunks
    /\ UNCHANGED fl_chunks

FilterInit ==
    /\ fl_chunks \in RetrievedLists
    /\ fl_i = 0
    /\ faq_chunks = <<>>
    /\ PqIdle /\ PrIdle /\ RsIdle /\ ClIdle /\ RkIdle /\ AsIdle /\ FqIdle
    /\ StLoaded /\ RnIdle /\ CoIdle /\ ExtIdle
FilterNext ==
    FilterChunk
        /\ UNCHANGED <<pqVars, prVars, rsVars, clVars, rkVars, asVars, fqVars, stVars, rnVars, coVars,
                       extVars>>
SpecFilter == FilterInit /\ [][FilterNext]_vars

\* an FAQ section header or a question/answer marker, in any letter case
HasHeaderOrMarker(chunk) ==
    \/ Contains(Lower(chunk), "frequently asked questions")
    \/ Contains(Lower(chunk), "q:")
    \/ Contains(Lower(chunk), "a:")

\* C15: once the filter loop has run over the retrieved chunks, the FAQ candidates
\* are exactly the chunks with an FAQ header or a Q/A marker, in retrieval order;
\* every chunk with "**Q:" is among them and the decision depends on the text only.
C15_FilterMembership ==
    fl_i = Len(fl_chunks) =>
        /\ faq_chunks = SelectSeq(fl_chunks, HasHeaderOrMarker)
        /\ \A i \in 1..Len(fl_chunks) :
               Contains(fl_chunks[i], "**Q:") =>
                   \E j \in 1..Len(faq_chunks) : faq_chunks[j] = fl_chunks[i]

\* a list with a "**Q:" chunk taken and a plain chunk left out
C15_Witness ==
    /\ fl_i = Len(fl_chunks)
    /\ Len(fl_chunks) = 2
    /\ Len(faq_chunks) = 1
    /\ Contains(faq_chunks[1], "**Q:")
    /\ \E i \in 1..2 : ~HasHeaderOrMarker(fl_chunks[i])

---------------------------------------------------------------------------
(* Concurrent queries: the handle_mention tasks of one asyncio event loop  *)

\* (variant: the history keeps its first max_turns entries)
AddToThreadHistoryKeepOldest(histories, thread_ts, role, content, max_turns) ==
    LET old == IF thread_ts \in DOMAIN histories THEN histories[thread_ts] ELSE <<>>
    IN  [th \in DOMAIN histories \cup {thread_ts} |->
            IF th = thread_ts
            THEN Take(Append(old, [role |-> role, content |-> content]), max_turns)
            ELSE histories[th]]

\* add_to_thread_history: the dict thread_histories after the call. The list of
\* the thread is created if absent, the turn appended, and [-max_turns:] kept.
AddToThreadHistory(histories, thread_ts, role, content, max_turns) ==
    LET old == IF thread_ts \in DOMAIN histories THEN histories[thread_ts] ELSE <<>>
    IN  [th \in DOMAIN histories \cup {thread_ts} |->
            IF th = thread_ts
            THEN LastN(Append(old, [role |-> role, content |-> content]), max_turns)
            ELSE histories[th]]

\* the default of the parameter max_turns, which every call of main.py uses
max_turns == 6

\* get_thread_context: " ".join(turn["content"] for turn in history)
GetThreadContext(histories, thread_ts) ==
    LET history == IF thread_ts \in DOMAIN histories THEN histories[thread_ts] ELSE <<>>
    IN  Join(" ", [i \in 1..Len(history) |-> history[i].content])

\* the mentions the tasks handle: all in one thread, each with a text of its own
MentionThread == "1700000001.000100"
UserMessage(t) == "<@BOT> question " \o IntToStr(t)

\* (variant: a provider call that suspends its task while the request is out)
LoopHolderDuringCallYields(t) == 0

\* who holds the event loop's thread while a provider call of task t is out. The
\* clients are openai.OpenAI, whose calls block: the task keeps the thread until
\* the call has returned or raised.
LoopHolderDuringCall(t) == t

\* the event loop runs a pending handle_mention task; the task runs without
\* suspending through lines 128-140 into process_query: it adds the user's message
\* to the thread's history and builds the contextual query
TaskRun(t) ==
    LET added == AddToThreadHistory(thread_histories, MentionThread, "user", UserMessage(t),
                                    max_turns)
    IN  /\ running = 0
        /\ co_pc[t] = "pending"
        /\ running' = t
        /\ co_pc' = [co_pc EXCEPT ![t] = "process_query"]
        /\ thread_histories' = added
        /\ th_added' = [th_added EXCEPT ![MentionThread] =
               Append(@, [role |-> "user", content |-> UserMessage(t)])]
        /\ contextual_query' =
               [contextual_query EXCEPT ![t] = GetThreadContext(added, MentionThread)]
        /\ UNCHANGED in_flight

\* the provider call of line 143 goes out
ProviderCallBegin(t) ==
    /\ running = t
    /\ co_pc[t] = "process_query"
    /\ in_flight' = in_flight + 1
    /\ running' = LoopHolderDuringCall(t)
    /\ co_pc' = [co_pc EXCEPT ![t] = "calling"]
    /\ UNCHANGED <<contextual_query, thVars>>

\* the provider call returns or raises
ProviderCallEnd(t) ==
    /\ running = t
    /\ co_pc[t] = "calling"
    /\ in_flight' = in_flight - 1
    /\ co_pc' = [co_pc EXCEPT ![t] = "called"]
    /\ UNCHANGED <<running, contextual_query, thVars>>

\* process_query raises (the provider's error, or the TypeError of the await);
\* handle_mention catches it, skipping lines 143-200 (the answer generation and
\* the assistant turn of line 151), and awaits say(...), which suspends the task
TaskSay(t) ==
    /\ running = t
    /\ co_pc[t] = "called"
    /\ running' = 0
    /\ co_pc' = [co_pc EXCEPT ![t] = "saying"]
    /\ UNCHANGED <<in_flight, contextual_query, thVars>>

\* say(...) is done; the task resumes and ends
TaskEnd(t) ==
    /\ running = 0
    /\ co_pc[t] = "saying"
    /\ co_pc' = [co_pc EXCEPT ![t] = "done"]
    /\ UNCHANGED <<running, in_flight, contextual_query, thVars>>

otherThanCo ==
    <<pqVars, prVars, rsVars, clVars, rkVars, asVars, fqVars, flVars, stVars, rnVars,
      vtVars, ckVars, gtVars>>

ConcurrentInit == PqIdle /\ PrIdle /\ RsIdle /\ ClIdle /\ RkIdle /\ RestIdle
ConcurrentNext ==
    \/ \E t \in Tasks : TaskRun(t) /\ UNCHANGED otherThanCo
    \/ \E t \in Tasks : ProviderCallBegin(t) /\ UNCHANGED otherThanCo
    \/ \E t \in Tasks : ProviderCallEnd(t) /\ UNCHANGED otherThanCo
    \/ \E t \in Tasks : TaskSay(t) /\ UNCHANGED otherThanCo
    \/ \E t \in Tasks : TaskEnd(t) /\ UNCHANGED otherThanCo
SpecConcurrent == ConcurrentInit /\ [][ConcurrentNext]_vars

\* C18: however many queries are being processed, the provider calls in flight at
\* one time never exceed a fixed number (one: a call holds the only thread).
C18_BoundedInFlight == in_flight <= 1

\* a call is out while another query is half way and a third has not begun
C18_Witness ==
    /\ in_flight = 1
    /\ \E t \in Tasks : co_pc[t] = "saying"
    /\ \E t \in Tasks : co_pc[t] = "pending"

\* C27: once a handler of a mention has completed, the history of the thread holds
\* the user message it handled and, immediately after it, its assistant answer.
C27_AnswerAfterQuestion ==
    \A t \in Tasks :
        co_pc[t] = "done" =>
            LET history == thread_histories[MentionThread]
            IN  \E i \in 1..(Len(history) - 1) :
                    /\ history[i] = [role |-> "user", content |-> UserMessage(t)]
                    /\ history[i + 1].role = "assistant"

---------------------------------------------------------------------------
(* process_query called again and again on one RetrievalService            *)

MaxRuns == 2

\* (variant: a call that finds the call log of the call before it)
FreshLocalsKept ==
    [awaited |-> NoValue, translated_query |-> "", doc_type |-> "", calls |-> calls,
     outcome |-> NoValue]

\* the locals of a call of process_query when it begins: none is assigned, and the
\* method keeps nothing on self from one call to the next
FreshLocals ==
    [awaited |-> NoValue, translated_query |-> "", doc_type |-> "", calls |-> <<>>,
     outcome |-> NoValue]

\* the caller has the exception of the call that ended and calls process_query again
ProcessQueryAgain ==
    \E q \in PqQueries :
        /\ pc = "raised"
        /\ runs < MaxRuns
        /\ runs' = runs + 1
        /\ results' = results \cup {[query |-> query, ok |-> AllCallsOk, outcome |-> outcome]}
        /\ pc' = "translate"
        /\ query' = q
        /\ awaited' = FreshLocals.awaited
        /\ translated_query' = FreshLocals.translated_query
        /\ doc_type' = FreshLocals.doc_type
        /\ calls' = FreshLocals.calls
        /\ outcome' = FreshLocals.outcome

RunsInit == PqIdle /\ PrIdle /\ RsIdle /\ ClIdle /\ RkIdle /\ RestIdle
RunsNext ==
    \/ ProcessQuery /\ UNCHANGED <<prVars, rsVars, clVars, rkVars, restVars>>
    \/ CallTranslate /\ UNCHANGED <<prVars, rsVars, clVars, rkVars, restVars>>
    \/ AwaitTranslate /\ UNCHANGED <<prVars, rsVars, clVars, rkVars, restVars>>
    \/ ProcessQueryAgain
           /\ UNCHANGED <<prVars, rsVars, clVars, rkVars, asVars, fqVars, flVars, stVars, coVars,
                          extVars>>
SpecRuns == RunsInit /\ [][RunsNext]_vars

\* the calls that have ended, the present one included
EndedCalls ==
    results \cup (IF Finished
                  THEN {[query |-> query, ok |-> AllCallsOk, outcome |-> outcome]}
                  ELSE {})

\* C19: process_query leaves the loaded indexes and passage lists as they were
\* loaded, begins every call with nothing kept from an earlier one, and ends the
\* same way whenever the query and the provider's answers are the same.
C19_StatelessFrame ==
    /\ faiss_indexes = LoadedIndexes
    /\ self_chunks = LoadedChunks
    /\ pc = "translate" =>
           /\ calls = <<>>
           /\ translated_query = ""
           /\ doc_type = ""
           /\ outcome = NoValue
    /\ \A a, b \in EndedCalls : (a.query = b.query /\ a.ok = b.ok) => a.outcome = b.outcome

\* a query has ended a second time as it ended before, after a call that ended
\* otherwise
C19_Witness ==
    /\ runs = 2
    /\ Finished
    /\ \E r \in results : r.query = query /\ r.ok = AllCallsOk /\ r.outcome = outcome
    /\ \E r \in results : r.outcome # outcome
    /\ self_chunks = LoadedChunks

---------------------------------------------------------------------------
(* A category that is not loaded, under SpecRetrieve                       *)

\* C20: a retrieval for a category with no index or no passages loaded does not
\* fail: it is served from the default category 'sop'.
C20_DefaultCategory ==
    (rs_outcome.kind # "none" /\ rs_outcome.text # "APIError"
        /\ rs_args.doc_type \notin (DOMAIN faiss_indexes \cap DOMAIN self_chunks)) =>
        /\ rs_outcome.kind = "chunks"
        /\ \A i \in 1..Len(rs_outcome.chunks) :
               \E j \in 1..Len(self_chunks["sop"]) : rs_outcome.chunks[i] = self_chunks["sop"][j]

---------------------------------------------------------------------------
(* The vote handlers of main.py                                            *)

\* thread_votes.get(thread_ts, {})
VotesOf(votes, thread_ts) == IF thread_ts \in DOMAIN votes THEN votes[thread_ts] ELSE EmptyDict

\* (variant: the check finds no vote)
HasUserVotedUnchecked(thread_ts, user_id) == FALSE

\* thread_votes.get(thread_ts, {}).get(user_id) is not None; no stored vote is None
HasUserVoted(thread_ts, user_id) == user_id \in DOMAIN VotesOf(thread_votes, thread_ts)

\* record_user_vote: the dict after thread_votes[thread_ts][user_id] = vote_type
RecordUserVote(votes, thread_ts, user_id, vote_type) ==
    LET old == VotesOf(votes, thread_ts)
        new == [u \in DOMAIN old \cup {user_id} |-> IF u = user_id THEN vote_type ELSE old[u]]
    IN  [th \in DOMAIN votes \cup {thread_ts} |-> IF th = thread_ts THEN new ELSE votes[th]]

\* sum(1 for vote in votes.values() if vote == vote_type)
CountVotes(votes, vote_type) == Cardinality({u \in DOMAIN votes : votes[u] = vote_type})

\* get_updated_blocks_after_vote, reading the dict `votes`; the emoji and the bullet
\* are written by their Slack short names
GetUpdatedBlocksAfterVote(votes, original_text, thread_ts) ==
    LET useful_count == CountVotes(VotesOf(votes, thread_ts), "useful")
        not_useful_count == CountVotes(VotesOf(votes, thread_ts), "not_useful")
    IN  << [type |-> "section", text |-> original_text, elements |-> <<>>],
           [type |-> "context", text |-> "",
            elements |-> << [type |-> "mrkdwn",
                             text |-> ":+1: " \o IntToStr(useful_count) \o " helpful :bullet: :-1: "
                                        \o IntToStr(not_useful_count) \o " not helpful"] >>],
           [type |-> "actions", text |-> "",
            elements |-> << Button(":speech_balloon: Still have any feedbacks?", "give_feedback",
                                   "feedback_text") >>] >>

\* GoogleSheetsService has no method record_vote: the call raises AttributeError
\* (or the constructor raises first), and the handler's except branch logs it
SheetsRecordVote == Raised("AttributeError")

FeedbackActions == {"feedback_helpful", "feedback_not_helpful"}

\* Slack delivers a click and the handler runs up to `await ack()`
DispatchClick(h) ==
    \E a \in FeedbackActions, u \in Users, th \in Threads :
        /\ vt_pc[h] = "idle"
        /\ IF h = 1 THEN TRUE ELSE vt_pc[h - 1] # "idle"
        /\ vt_click' = [vt_click EXCEPT ![h] = [action_id |-> a, user |-> u, thread_ts |-> th]]
        /\ vt_pc' = [vt_pc EXCEPT ![h] = "ack"]
        /\ UNCHANGED <<thread_votes, updated_blocks, displayed, vt_reply, vote_calls>>

\* the handler from the return of `await ack()` to its next await: the check, and
\* for a first vote the recording, the sheet call and the new blocks
HandleFeedback(h, vote_type) ==
    LET user_id == vt_click[h].user
        thread_ts == vt_click[h].thread_ts
        original_text == displayed[thread_ts][1].text
        recorded == RecordUserVote(thread_votes, thread_ts, user_id, vote_type)
    IN  /\ vt_pc[h] = "ack"
        /\ IF HasUserVoted(thread_ts, user_id)
           THEN /\ vt_pc' = [vt_pc EXCEPT ![h] = "already"]
                /\ UNCHANGED <<thread_votes, updated_blocks, vote_calls>>
           ELSE /\ thread_votes' = recorded
                /\ vote_calls' = [vote_calls EXCEPT ![thread_ts][user_id] = @ + 1]
                /\ SheetsRecordVote.kind = "exception"
                /\ updated_blocks' = [updated_blocks EXCEPT
                       ![h] = GetUpdatedBlocksAfterVote(recorded, original_text, thread_ts)]
                /\ vt_pc' = [vt_pc EXCEPT ![h] = "update"]
        /\ UNCHANGED <<vt_click, displayed, vt_reply>>

HandleHelpfulFeedback(h) ==
    vt_click[h].action_id = "feedback_helpful" /\ HandleFeedback(h, "useful")
HandleNotHelpfulFeedback(h) ==
    vt_click[h].action_id = "feedback_not_helpful" /\ HandleFeedback(h, "not_useful")

\* `await client.chat_update(...)` returns, or raises and the handler logs it
ChatUpdate(h) ==
    \E ok \in BOOLEAN :
        /\ vt_pc[h] = "update"
        /\ displayed' = IF ok THEN [displayed EXCEPT ![vt_click[h].thread_ts] = updated_blocks[h]]
                        ELSE displayed
        /\ vt_pc' = [vt_pc EXCEPT ![h] = "thanks"]
        /\ UNCHANGED <<thread_votes, vt_click, updated_blocks, vt_reply, vote_calls>>

\* the text of the handler's last chat_postEphemeral
ThanksText(action_id) ==
    IF action_id = "feedback_helpful" THEN "Thanks for your feedback!"
    ELSE "Sorry to hear that. Your feedback has been noted."

\* `await client.chat_postEphemeral(...)`, after which the handler returns
PostEphemeral(h) ==
    /\ vt_pc[h] \in {"already", "thanks"}
    /\ vt_reply' = [vt_reply EXCEPT ![h] =
           IF vt_pc[h] = "already" THEN "You have already voted on this response."
           ELSE ThanksText(vt_click[h].action_id)]
    /\ vt_pc' = [vt_pc EXCEPT ![h] = "done"]
    /\ UNCHANGED <<thread_votes, vt_click, updated_blocks, displayed, vote_calls>>

otherThanVt ==
    <<pqVars, prVars, rsVars, clVars, rkVars, asVars, fqVars, flVars, stVars, rnVars, coVars,
      thVars, ckVars, gtVars>>

VotesInit == PqIdle /\ PrIdle /\ RsIdle /\ ClIdle /\ RkIdle /\ RestIdle
VotesNext ==
    \/ \E h \in Clicks : DispatchClick(h) /\ UNCHANGED otherThanVt
    \/ \E h \in Clicks : HandleHelpfulFeedback(h) /\ UNCHANGED otherThanVt
    \/ \E h \in Clicks : HandleNotHelpfulFeedback(h) /\ UNCHANGED otherThanVt
    \/ \E h \in Clicks : ChatUpdate(h) /\ UNCHANGED otherThanVt
    \/ \E h \in Clicks : PostEphemeral(h) /\ UNCHANGED otherThanVt
SpecVotes == VotesInit /\ [][VotesNext]_vars

\* the users whose recorded vote on the thread is vote_type
Voters(thread_ts, vote_type) ==
    {u \in Users : /\ thread_ts \in DOMAIN thread_votes
                   /\ u \in DOMAIN thread_votes[thread_ts]
                   /\ thread_votes[thread_ts][u] = vote_type}

\* C21: for a thread with recorded votes get_updated_blocks_after_vote returns three
\* blocks, section, context, actions in this order; the context text shows the
\* number of users whose vote is 'useful' and the number whose vote is
\* 'not_useful'; the actions block holds one button, of action_id 'feedback_text'
\* and text 'Give Feedback' after the speech balloon.
C21_BlocksAfterVote ==
    \A th \in DOMAIN thread_votes :
        LET blocks == GetUpdatedBlocksAfterVote(thread_votes, AnswerText, th)
        IN  /\ Len(blocks) = 3
            /\ blocks[1].type = "section" /\ blocks[1].text = AnswerText
            /\ blocks[2].type = "context"
            /\ Len(blocks[2].elements) = 1
            /\ blocks[2].elements[1].text =
                   ":+1: " \o IntToStr(Cardinality(Voters(th, "useful")))
                       \o " helpful :bullet: :-1: "
                       \o IntToStr(Cardinality(Voters(th, "not_useful"))) \o " not helpful"
            /\ blocks[3].type = "actions"
            /\ Len(blocks[3].elements) = 1
            /\ blocks[3].elements[1].type = "button"
            /\ blocks[3].elements[1].action_id = "feedback_text"
            /\ blocks[3].elements[1].text = ":speech_balloon: Give Feedback"

\* the invocation handles a click of a user who has already voted on the thread
FurtherClick(h) ==
    \/ vt_pc[h] = "ack" /\ HasUserVoted(vt_click[h].thread_ts, vt_click[h].user)
    \/ vt_pc[h] = "already"

\* C26: under every interleaving of the two handlers record_user_vote runs at most
\* once for a thread and user; a recorded vote stays in thread_votes as it is; and
\* no step of a handler that handles a further click of a user who has already
\* voted on the thread changes thread_votes or the blocks displayed.
C26_OneVoteForGood ==
    /\ [](\A th \in Threads, u \in Users : vote_calls[th][u] <= 1)
    /\ [][\A th \in DOMAIN thread_votes : \A u \in DOMAIN thread_votes[th] :
              /\ th \in DOMAIN thread_votes'
              /\ u \in DOMAIN thread_votes'[th]
              /\ thread_votes'[th][u] = thread_votes[th][u]]_vars
    /\ [][\A h \in Clicks :
              (FurtherClick(h) /\ vt_pc'[h] # vt_pc[h]) =>
                  /\ thread_votes' = thread_votes
                  /\ displayed' = displayed
                  /\ vt_pc'[h] \in {"already", "done"}]_vars

\* C26 witness: a user who voted 'useful' on a thread clicked Not Helpful while the
\* first handler was still updating the message; the second handler has answered
\* "already voted" and the vote is still 'useful'
C26_Witness ==
    \E h, g \in Clicks :
        /\ vt_click[h].user = vt_click[g].user
        /\ vt_click[h].thread_ts = vt_click[g].thread_ts
        /\ vt_click[h].action_id = "feedback_helpful" /\ vt_pc[h] = "update"
        /\ vt_click[g].action_id = "feedback_not_helpful" /\ vt_pc[g] = "done"
        /\ vt_reply[g] = "You have already voted on this response."
        /\ thread_votes[vt_click[h].thread_ts][vt_click[h].user] = "useful"
        /\ vote_calls[vt_click[h].thread_ts][vt_click[h].user] = 1

---------------------------------------------------------------------------
(* RetrievalService._is_pr_query, the gate before the sheet is read        *)

\* lowered = query.lower(); "pr " in lowered or lowered.startswith("pr") or
\* "purchase request" in lowered or "purchase requisition" in lowered
IsPrQuery(q) ==
    LET lowered == Lower(q)
    IN  \/ Contains(lowered, "pr ")
        \/ StartsWith(lowered, "pr")
        \/ Contains(lowered, "purchase request")
        \/ Contains(lowered, "purchase requisition")

\* the queries the gate is given: an opening, a marker, a number or none
GateOpenings == {"", "status ", "please check ", "cek", "("}
GateMarkers == {"pr", "PR ", "pr#", "PR #", "purchase request ", "order "}
GateNumbers == {"", "7", "42", "042"}
GateQueries == {o \o m \o n : o \in GateOpenings, m \in GateMarkers, n \in GateNumbers}

\* if self._is_pr_query(query): of process_query, on its own
IsPrQueryCall ==
    \E q \in GateQueries :
        /\ ~gt_called
        /\ gt_called' = TRUE
        /\ gt_query' = q
        /\ gt_return' = IsPrQuery(q)

otherThanGt ==
    <<pqVars, prVars, rsVars, clVars, rkVars, asVars, fqVars, flVars, stVars, rnVars, coVars,
      vtVars, thVars, ckVars>>

GateInit == PqIdle /\ PrIdle /\ RsIdle /\ ClIdle /\ RkIdle /\ RestIdle
GateNext == IsPrQueryCall /\ UNCHANGED otherThanGt
SpecGate == GateInit /\ [][GateNext]_vars

\* C25: every query in which the matcher recognises an explicit request number
\* ('pr', optional spaces, optional '#', digits) passes the gate _is_pr_query.
C25_NumberPassesGate ==
    (gt_called /\ PrNumber(gt_query) # "") => gt_return

---------------------------------------------------------------------------
(* add_to_thread_history called again and again                            *)

MaxAdds == 7

\* the turns the calls add
Turns ==
    { [role |-> "user", content |-> "where is the PR form?"],
      [role |-> "assistant", content |-> "On the portal."] }

RECURSIVE TotalAdded(_)
TotalAdded(S) ==
    IF S = {} THEN 0
    ELSE LET th == CHOOSE x \in S : TRUE IN Len(th_added[th]) + TotalAdded(S \ {th})

\* add_to_thread_history(thread_ts, role, content), as lines 134 and 151 call it
AddToThreadHistoryCall ==
    \E th \in Threads, turn \in Turns :
        /\ TotalAdded(Threads) < MaxAdds
        /\ thread_histories' =
               AddToThreadHistory(thread_histories, th, turn.role, turn.content, max_turns)
        /\ th_added' = [th_added EXCEPT ![th] = Append(@, turn)]

otherThanTh ==
    <<pqVars, prVars, rsVars, clVars, rkVars, asVars, fqVars, flVars, stVars, rnVars, coVars,
      vtVars, ckVars, gtVars>>

HistoryInit == PqIdle /\ PrIdle /\ RsIdle /\ ClIdle /\ RkIdle /\ RestIdle
HistoryNext == AddToThreadHistoryCall /\ UNCHANGED otherThanTh
SpecHistory == HistoryInit /\ [][HistoryNext]_vars

\* the history of a thread, empty for a thread that has none
HistoryOf(histories, th) == IF th \in DOMAIN histories THEN histories[th] ELSE <<>>

\* C28: after any sequence of calls the history of every thread has at most 6
\* entries, the last 6 turns added to that thread (all of them if fewer were added)
\* in the order they were added; and a call that adds to one thread leaves the
\* history of every other thread as it was.
C28_LastSixInOrder ==
    /\ [](\A th \in Threads :
             /\ Len(HistoryOf(thread_histories, th)) <= 6
             /\ IsLastOf(HistoryOf(thread_histories, th), th_added[th], 6))
    /\ [][\A th \in Threads :
              th_added'[th] = th_added[th] =>
                  HistoryOf(thread_histories', th) = HistoryOf(thread_histories, th)]_vars

\* C28 witness: seven turns were added to one thread, the user's and the assistant's
\* in alternation; the first is gone and the other six are left in order, while the
\* other thread has no history
C28_Witness ==
    \E th \in Threads :
        /\ Len(th_added[th]) = 7
        /\ \A i \in 1..6 : th_added[th][i] # th_added[th][i + 1]
        /\ thread_histories[th] = SubSeq(th_added[th], 2, 7)
        /\ DOMAIN thread_histories = {th}

---------------------------------------------------------------------------
(* A chunk file, as RetrievalService and the index builder read it         *)

\* str.split(sep): the pieces between the occurrences of sep, found left to right
RECURSIVE SplitFrom(_, _, _, _)
SplitFrom(s, sep, i, start) ==
    IF i + Len(sep) - 1 > Len(s) THEN <<SubSeq(s, start, Len(s))>>
    ELSE IF SubSeq(s, i, i + Len(sep) - 1) = sep
         THEN <<SubSeq(s, start, i - 1)>> \o SplitFrom(s, sep, i + Len(sep), i + Len(sep))
         ELSE SplitFrom(s, sep, i + 1, start)
Split(s, sep) == SplitFrom(s, sep, 1, 1)

\* RetrievalService._load_indexes_and_chunks: f.read().split("\n\n")
ServiceChunks(text) == Split(text, "\n\n")

\* load_chunks of generate_embeddings.py:
\* [chunk.strip() for chunk in f.read().split("\n\n") if chunk.strip()]
LoadChunks(text) ==
    LET pieces == Split(text, "\n\n")
        kept == SelectSeq(pieces, LAMBDA chunk : Strip(chunk) # "")
    IN  [i \in 1..Len(kept) |-> Strip(kept[i])]

\* chunk_knowledge_file: f.write(chunk + "\n\n") for every chunk
RECURSIVE ChunkKnowledgeFile(_)
ChunkKnowledgeFile(cs) ==
    IF cs = <<>> THEN "" ELSE Head(cs) \o "\n\n" \o ChunkKnowledgeFile(Tail(cs))

MaxFileChunks == 3

\* chunks as split_text_into_chunks makes them: words joined by single spaces
WordChunks == {"SOP pengadaan", "FAQ", "**Q: where is the PR form?"}

\* the files chunk_knowledge_file writes
WrittenFiles ==
    UNION { {ChunkKnowledgeFile(cs) : cs \in [1..n -> WordChunks]} : n \in 0..MaxFileChunks }

\* files kept by hand: other gaps between two chunks, other endings
EditedFiles ==
    { a \o gap \o b \o ending :
        a \in WordChunks, b \in WordChunks,
        gap \in {"\n\n", "\n\n\n", "\n\n\n\n", "\n \n\n"}, ending \in {"", "\n", "\n\n", " "} }

ChunkFileTexts == WrittenFiles \cup EditedFiles

\* the service and the index builder read the same file
LoadChunkFile ==
    \E text \in ChunkFileTexts :
        /\ ck_pc = "idle"
        /\ ck_pc' = "loaded"
        /\ ck_file' = text
        /\ ck_service' = ServiceChunks(text)
        /\ ck_builder' = LoadChunks(text)

otherThanCk ==
    <<pqVars, prVars, rsVars, clVars, rkVars, asVars, fqVars, flVars, stVars, rnVars, coVars,
      vtVars, thVars, gtVars>>

ChunksInit == PqIdle /\ PrIdle /\ RsIdle /\ ClIdle /\ RkIdle /\ RestIdle
ChunksNext == LoadChunkFile /\ UNCHANGED otherThanCk
SpecChunks == ChunksInit /\ [][ChunksNext]_vars

\* C29: the passage list the service loads from a chunk file is the chunk list
\* load_chunks yields from the same file, in length and position by position.
C29_SameChunkList ==
    ck_pc = "loaded" => ck_service = ck_builder

=============================================================================
